---------------------------- MODULE Spec2Model ----------------------------
(***************************************************************************)
(* Model of src/geotool/tif_merge.py: run_merge and the helpers it calls   *)
(* (names_to_fileinfos, file_info.init_from_name, file_info.copy_into,     *)
(* raster_copy, raster_copy_with_nodata, raster_copy_with_mask).           *)
(*                                                                         *)
(* World coordinates and pixel sizes are integers (a fixed-point grid), so *)
(* every quotient of the code is an exact rational and int(q + 0.1),       *)
(* int(q + 0.5) are computed exactly.  Samples are small integers and NaN; *)
(* all rasters share one floating pixel type, so the type conversion done  *)
(* by the raster backend on write does not change a modelled sample.       *)
(* The options run_merge binds at lines 317-325 (separate, nodata,         *)
(* pre_init) are inputs of the model; createonly, a_nodata, copy_pct and   *)
(* bTargetAlignedPixels keep the values the code gives them.               *)
(***************************************************************************)
EXTENDS Integers, Sequences, FiniteSets, TLC

\* longest list of input names
MaxNames == 2

\* code of the float sample NaN (every other sample is >= 0)
NaN == -1

\* content of a raster right after Driver.Create
CreateValue == 0

VARIABLES names, separate, nodata, pre_init, createOK,
          pc, failure, file_infos, ulx, uly, lrx, lry, psize_x, psize_y,
          t_fh, bands, t_band, fi_idx, band, calls, background, copies

vars == <<names, separate, nodata, pre_init, createOK,
          pc, failure, file_infos, ulx, uly, lrx, lry, psize_x, psize_y,
          t_fh, bands, t_band, fi_idx, band, calls, background, copies>>

inputs == <<names, separate, nodata, pre_init, createOK>>

Max(a, b) == IF a >= b THEN a ELSE b
Min(a, b) == IF a <= b THEN a ELSE b
Abs(a) == IF a >= 0 THEN a ELSE -a

\* Python int() of the rational n/d: truncation toward zero
TruncDiv(n, d) ==
  IF (n >= 0) = (d > 0) THEN Abs(n) \div Abs(d) ELSE -(Abs(n) \div Abs(d))

-----------------------------------------------------------------------------
(* Rasters *)

\* no dataset: gdal.Open returned None / out_file does not exist
NoRaster == [gt |-> <<>>, xsize |-> 0, ysize |-> 0, bands |-> 0, data |-> <<>>]

Pix(xs, ys) == (0 .. xs - 1) \X (0 .. ys - 1)

\* a raster of `n` bands whose every sample is v
Flat(g, xs, ys, n, v) ==
  [gt |-> g, xsize |-> xs, ysize |-> ys, bands |-> n,
   data |-> [b \in 1 .. n |-> [p \in Pix(xs, ys) |-> v]]]

\* a source file: what gdal.Open(filename) yields.  ok = FALSE: Open returns None.
\* val/hole/holes give the band samples, mask the mask band, flags/interp the
\* band's GetMaskFlags() and GetColorInterpretation().
File(ok, g, xs, ys, n, val, hole, holes, flags, interp) ==
  [ok |-> ok, gt |-> g, xsize |-> xs, ysize |-> ys, bands |-> n, val |-> val,
   hole |-> hole, holes |-> holes, flags |-> flags, interp |-> interp]

BadFile == File(FALSE, <<0, 1, 0, 0, 0, -1>>, 1, 1, 1, 0, 0, "none",
                "GMF_ALL_VALID", "GCI_GrayIndex")

IsHole(f, c, r) ==
  \/ f.holes = "all"
  \/ f.holes = "checker" /\ (c + r) % 2 = 0

\* sample of band b of file f at pixel (c, r)
BandSample(f, b, c, r) ==
  IF IsHole(f, c, r) THEN f.hole ELSE f.val + 2 * (b - 1)

\* sample of the mask band of file f at pixel (c, r): 0 invalid, 255 valid
MaskSample(f, c, r) == IF (c + r) % 2 = 1 THEN 0 ELSE 255


-----------------------------------------------------------------------------
(* file_info *)

\* file_info.init_from_name: the descriptor of an opened file
init_from_name(f) ==
  [filename |-> f, bands |-> f.bands, xsize |-> f.xsize, ysize |-> f.ysize,
   geotransform |-> f.gt,
   ulx |-> f.gt[1], uly |-> f.gt[4],
   lrx |-> f.gt[1] + f.gt[2] * f.xsize,
   lry |-> f.gt[4] + f.gt[6] * f.ysize]

RECURSIVE names_to_fileinfos(_)
names_to_fileinfos(ns) ==
  IF ns = <<>> THEN <<>>
  ELSE LET rest == names_to_fileinfos(Tail(ns))
       IN  IF Head(ns).ok THEN <<init_from_name(Head(ns))>> \o rest ELSE rest

\* run_merge's loop over file_infos: running min/max of the four corners
RECURSIVE Extent(_, _, _)
Extent(fis, i, acc) ==
  IF i > Len(fis) THEN acc
  ELSE Extent(fis, i + 1,
              [ulx |-> Min(acc.ulx, fis[i].ulx), uly |-> Max(acc.uly, fis[i].uly),
               lrx |-> Max(acc.lrx, fis[i].lrx), lry |-> Min(acc.lry, fis[i].lry)])

UnionExtent(fis) ==
  Extent(fis, 1, [ulx |-> fis[1].ulx, uly |-> fis[1].uly,
                  lrx |-> fis[1].lrx, lry |-> fis[1].lry])

\* a slip: the size truncated, without the 0.5 bias
OutSizeTrunc(span, psize) == TruncDiv(span, psize)
\* xsize, ysize of the created raster: int((lr - ul) / psize + 0.5)
OutSize(span, psize) == TruncDiv(2 * span + psize, 2 * psize)

\* bands = bands + fi.bands over a list of descriptors
RECURSIVE SumBands(_)
SumBands(fis) == IF fis = <<>> THEN 0 ELSE Head(fis).bands + SumBands(Tail(fis))

\* a slip: the first tile's band count in both layouts
CreateBandsFirst(sep, fis) == fis[1].bands
\* bands of run_merge: the sum in SEPARATE layout, else the first tile's
CreateBands(sep, fis) == IF sep # 0 THEN SumBands(fis) ELSE fis[1].bands

-----------------------------------------------------------------------------
(* file_info.copy_into: the copy windows *)

\* int(n/d + 0.1): offset of the target window
tw_off(n, d) == TruncDiv(10 * n + d, 10 * d)
\* a slip: the source offset computed as the target offset is
sw_off_eps(n, d) == TruncDiv(10 * n + d, 10 * d)
\* int(n/d): offset of the source window
sw_off(n, d) == TruncDiv(n, d)
\* int(n/d + 0.5): far edge of a window, both grids
win_end(n, d) == TruncDiv(2 * n + d, 2 * d)

NoWin == <<0, 0, 0, 0>>

\* outcome of the window computation of copy_into for descriptor fi and target t:
\* no_overlap / skip_tw / skip_sw (return 1 with nothing copied) or copy
CopyWindow(fi, t) ==
  LET g       == t.gt
      t_ulx   == g[1]
      t_uly   == g[4]
      t_lrx   == g[1] + t.xsize * g[2]
      t_lry   == g[4] + t.ysize * g[6]
      tgw_ulx == Max(t_ulx, fi.ulx)
      tgw_lrx == Min(t_lrx, fi.lrx)
      tgw_uly == IF g[6] < 0 THEN Min(t_uly, fi.uly) ELSE Max(t_uly, fi.uly)
      tgw_lry == IF g[6] < 0 THEN Max(t_lry, fi.lry) ELSE Min(t_lry, fi.lry)
      tw_xoff == tw_off(tgw_ulx - g[1], g[2])
      tw_yoff == tw_off(tgw_uly - g[4], g[6])
      tw_xsize == win_end(tgw_lrx - g[1], g[2]) - tw_xoff
      tw_ysize == win_end(tgw_lry - g[4], g[6]) - tw_yoff
      s       == fi.geotransform
      sw_xoff == sw_off(tgw_ulx - s[1], s[2])
      sw_yoff == sw_off(tgw_uly - s[4], s[6])
      sw_xsize == win_end(tgw_lrx - s[1], s[2]) - sw_xoff
      sw_ysize == win_end(tgw_lry - s[4], s[6]) - sw_yoff
      tgw     == <<tgw_ulx, tgw_uly, tgw_lrx, tgw_lry>>
  IN  IF \/ tgw_ulx >= tgw_lrx
         \/ g[6] < 0 /\ tgw_uly <= tgw_lry
         \/ g[6] > 0 /\ tgw_uly >= tgw_lry
      THEN [outcome |-> "no_overlap", tgw |-> tgw, tw |-> NoWin, sw |-> NoWin]
      ELSE IF tw_xsize < 1 \/ tw_ysize < 1
      THEN [outcome |-> "skip_tw", tgw |-> tgw,
            tw |-> <<tw_xoff, tw_yoff, tw_xsize, tw_ysize>>, sw |-> NoWin]
      ELSE IF sw_xsize < 1 \/ sw_ysize < 1
      THEN [outcome |-> "skip_sw", tgw |-> tgw,
            tw |-> <<tw_xoff, tw_yoff, tw_xsize, tw_ysize>>,
            sw |-> <<sw_xoff, sw_yoff, sw_xsize, sw_ysize>>]
      ELSE [outcome |-> "copy", tgw |-> tgw,
            tw |-> <<tw_xoff, tw_yoff, tw_xsize, tw_ysize>>,
            sw |-> <<sw_xoff, sw_yoff, sw_xsize, sw_ysize>>]

InWin(p, w) ==
  /\ w[1] <= p[1] /\ p[1] < w[1] + w[3]
  /\ w[2] <= p[2] /\ p[2] < w[2] + w[4]

\* the source pixel the backend's nearest-neighbour resize reads for target pixel
\* p when window sw is read into a buffer of the size of window tw
SrcPixel(p, sw, tw) ==
  <<sw[1] + ((2 * (p[1] - tw[1]) + 1) * sw[3]) \div (2 * tw[3]),
    sw[2] + ((2 * (p[2] - tw[2]) + 1) * sw[4]) \div (2 * tw[4])>>

\* data_src at target pixel p: s_band.ReadRaster / ReadAsArray(sw..., t_xsize, t_ysize)
ReadSrc(f, b, p, sw, tw) ==
  LET q == SrcPixel(p, sw, tw) IN BandSample(f, b, q[1], q[2])

\* data_mask at target pixel p, for m_band the mask band or the band itself
ReadMask(f, b, m_band, p, sw, tw) ==
  LET q == SrcPixel(p, sw, tw)
  IN  IF m_band = "s_band" THEN BandSample(f, b, q[1], q[2])
      ELSE MaskSample(f, q[1], q[2])

-----------------------------------------------------------------------------
(* raster_copy and its three strategies *)

IsNaN(v) == v = NaN
\* Numeric.equal: NaN equals nothing
Equal(a, b) == a # NaN /\ b # NaN /\ a = b

\* m_band of raster_copy
MaskBandOf(f) ==
  IF f.flags # "GMF_ALL_VALID" THEN "GetMaskBand"
  ELSE IF f.interp = "GCI_AlphaBand" THEN "s_band"
  ELSE "None"

\* a slip: `if nodata:` for `if nodata is not None:`, so nodata = 0 is not seen
StrategyTruthy(nd, f) ==
  IF nd # <<>> /\ nd[1] # 0 THEN "raster_copy_with_nodata"
  ELSE IF MaskBandOf(f) # "None" THEN "raster_copy_with_mask"
  ELSE "plain"
\* which copy routine raster_copy runs
Strategy(nd, f) ==
  IF nd # <<>> THEN "raster_copy_with_nodata"
  ELSE IF MaskBandOf(f) # "None" THEN "raster_copy_with_mask"
  ELSE "plain"

\* a slip: the equality test alone, without the isnan branch
nodata_test_equal(src, nd) == Equal(src, nd)
\* nodata_test of raster_copy_with_nodata
nodata_test(src, nd) == IF ~IsNaN(nd) THEN Equal(src, nd) ELSE IsNaN(src)

\* a slip: plain copy that keeps a destination sample already written
PlainWriteKeep(src, dst) == IF dst # CreateValue THEN dst ELSE src
\* the sample WriteRaster stores under plain copy
PlainWrite(src, dst) == src

\* to_write of the three routines at one pixel
ToWrite(strategy, src, mask, dst, nd) ==
  IF strategy = "raster_copy_with_nodata"
  THEN IF nodata_test(src, nd[1]) THEN dst ELSE src
  ELSE IF strategy = "raster_copy_with_mask"
  THEN IF Equal(mask, 0) THEN dst ELSE src
  ELSE PlainWrite(src, dst)

\* the target raster after raster_copy of band s_band of f into band t_b
raster_copy(f, sw, s_band, t, tw, t_b, nd) ==
  LET st == Strategy(nd, f)
  IN  [t EXCEPT !.data[t_b] =
         [p \in Pix(t.xsize, t.ysize) |->
            IF InWin(p, tw)
            THEN ToWrite(st, ReadSrc(f, s_band, p, sw, tw),
                         ReadMask(f, s_band, MaskBandOf(f), p, sw, tw),
                         t.data[t_b][p], nd)
            ELSE t.data[t_b][p]]]

-----------------------------------------------------------------------------
(* Inputs *)

NorthUp(x, y, ps) == <<x, ps, 0, y, 0, -ps>>

\* source files of the compositing runs: pixel size 20, two overlapping footprints
PlainFile(x, y, n, v) ==
  File(TRUE, NorthUp(x, y, 20), 2, 2, n, v, 0, "none", "GMF_ALL_VALID", "GCI_GrayIndex")
HoleFile(x, y, v, h, hs) ==
  File(TRUE, NorthUp(x, y, 20), 2, 2, 1, v, h, hs, "GMF_ALL_VALID", "GCI_GrayIndex")
MaskFile(x, y, v, hs, fl, ci) ==
  File(TRUE, NorthUp(x, y, 20), 2, 2, 1, v, 0, hs, fl, ci)

Files ==
  {BadFile}
  \cup {PlainFile(0, 0, n, 1) : n \in 1 .. 2}
  \cup {PlainFile(20, -20, n, 2) : n \in 1 .. 2}
  \cup {HoleFile(20, -20, 2, h, hs) : h \in {0, NaN}, hs \in {"checker", "all"}}
  \cup {HoleFile(0, 0, 1, 0, "checker")}
  \cup {MaskFile(20, -20, 2, "none", "GMF_PER_DATASET", "GCI_GrayIndex"),
        MaskFile(20, -20, 2, "checker", "GMF_ALL_VALID", "GCI_AlphaBand"),
        MaskFile(0, 0, 1, "checker", "GMF_PER_DATASET", "GCI_AlphaBand")}

\* source files of the geometry runs: one flat band, varied origin, size, pixel size
GeomFiles ==
  {BadFile}
  \cup {File(TRUE, NorthUp(o[1], o[2], ps), xs, 1, 1, 1 + o[1] \div 20, 0, "none",
             "GMF_ALL_VALID", "GCI_GrayIndex") :
          o \in {<<0, 0>>, <<5, 0>>, <<20, 0>>, <<0, -5>>, <<0, -20>>, <<20, -20>>},
          ps \in {10, 20}, xs \in 1 .. 2}

\* out_file before the run: absent, or an existing raster whose samples are all 5
Disks == {NoRaster, Flat(NorthUp(0, 0, 20), 3, 3, 2, 5)}

GeomDisks ==
  {NoRaster,
   Flat(NorthUp(19, 0, 20), 1, 1, 2, 5),
   Flat(NorthUp(0, 0, 5), 1, 1, 2, 5),
   Flat(NorthUp(30, -5, 10), 2, 2, 2, 5)}

NameLists(F) == UNION {[1 .. n -> F] : n \in 0 .. MaxNames}

Unbound == <<>>

InitWith(F, D, Nodatas, PreInits) ==
  /\ names \in NameLists(F)
  /\ separate \in {0, 1}
  /\ nodata \in Nodatas
  /\ pre_init \in PreInits
  /\ t_fh \in D
  /\ createOK \in IF t_fh = NoRaster THEN BOOLEAN ELSE {TRUE}
  /\ pc = "collect"
  /\ failure = "none"
  /\ file_infos = <<>>
  /\ ulx = 0 /\ uly = 0 /\ lrx = 0 /\ lry = 0
  /\ psize_x = 0 /\ psize_y = 0
  /\ bands = Unbound
  /\ t_band = 1
  /\ fi_idx = 1
  /\ band = 1
  /\ calls = {}
  /\ background = NoRaster
  /\ copies = <<>>

Init == InitWith(Files, Disks, {<<>>, <<0>>, <<NaN>>}, {<<>>, <<7>>, <<7, 8>>})

InitGeom == InitWith(GeomFiles, GeomDisks, {<<>>}, {<<>>})

-----------------------------------------------------------------------------
(* run_merge *)

Fail(why) ==
  /\ pc' = "failed"
  /\ failure' = why

\* line 344: file_infos = names_to_fileinfos(names)
Collect ==
  /\ pc = "collect"
  /\ file_infos' = names_to_fileinfos(names)
  /\ pc' = "plan"
  /\ UNCHANGED <<inputs, failure, ulx, uly, lrx, lry, psize_x, psize_y, t_fh,
                 bands, t_band, fi_idx, band, calls, background, copies>>

\* lines 347-363: union extent and resolution; file_infos[0] of an empty list
\* raises IndexError
Plan ==
  /\ pc = "plan"
  /\ IF file_infos = <<>>
     THEN /\ Fail("IndexError")
          /\ UNCHANGED <<ulx, uly, lrx, lry, psize_x, psize_y>>
     ELSE LET e == UnionExtent(file_infos)
          IN  /\ ulx' = e.ulx /\ uly' = e.uly /\ lrx' = e.lrx /\ lry' = e.lry
              /\ psize_x' = file_infos[1].geotransform[2]
              /\ psize_y' = file_infos[1].geotransform[6]
              /\ pc' = "open"
              /\ UNCHANGED failure
  /\ UNCHANGED <<inputs, file_infos, t_fh, bands, t_band, fi_idx, band, calls,
                 background, copies>>

\* lines 366-373, out_file exists: gdal.Open(out_file, GA_Update) returns it and
\* the creation block is skipped, `bands` stays unassigned
Reuse ==
  /\ pc = "open"
  /\ t_fh # NoRaster
  /\ pc' = "init"
  /\ UNCHANGED <<inputs, failure, file_infos, ulx, uly, lrx, lry, psize_x, psize_y,
                 t_fh, bands, t_band, fi_idx, band, calls, background, copies>>

\* lines 373-400, out_file does not exist: Driver.Create
Create ==
  /\ pc = "open"
  /\ t_fh = NoRaster
  /\ bands' = <<CreateBands(separate, file_infos)>>
  /\ IF createOK
     THEN /\ t_fh' = Flat(<<ulx, psize_x, 0, uly, 0, psize_y>>,
                          OutSize(lrx - ulx, psize_x), OutSize(lry - uly, psize_y),
                          CreateBands(separate, file_infos), CreateValue)
          /\ calls' = calls \cup {"Create", "SetGeoTransform", "SetProjection"}
          /\ pc' = "init"
          /\ UNCHANGED failure
     ELSE /\ Fail("CreationFailed")
          /\ UNCHANGED <<t_fh, calls>>
  /\ UNCHANGED <<inputs, file_infos, ulx, uly, lrx, lry, psize_x, psize_y,
                 t_band, fi_idx, band, background, copies>>

\* lines 412-418: which value band b is filled with, <<>> when it is not filled
PreInitValue(pi, count, b) ==
  IF count <= Len(pi) THEN <<pi[b]>>
  ELSE IF Len(pi) = 1 THEN <<pi[1]>>
  ELSE <<>>

\* lines 407-421: pre-initialisation of the mosaic, t_band = 1
PreInit ==
  /\ pc = "init"
  /\ t_fh' = [t_fh EXCEPT !.data =
                [b \in 1 .. t_fh.bands |->
                   IF PreInitValue(pre_init, t_fh.bands, b) = <<>> THEN t_fh.data[b]
                   ELSE [p \in Pix(t_fh.xsize, t_fh.ysize) |->
                           PreInitValue(pre_init, t_fh.bands, b)[1]]]]
  /\ calls' = calls \cup
       IF \E b \in 1 .. t_fh.bands : PreInitValue(pre_init, t_fh.bands, b) # <<>>
       THEN {"Fill"} ELSE {}
  /\ background' = t_fh'
  /\ t_band' = 1
  /\ fi_idx' = 1
  /\ band' = 1
  /\ pc' = "copy"
  /\ UNCHANGED <<inputs, failure, file_infos, ulx, uly, lrx, lry, psize_x, psize_y,
                 bands, copies>>

\* one call fi.copy_into(t_fh, s_b, t_b, nodata) with its log entry: the windows,
\* then raster_copy; GetRasterBand of a band the dataset does not have yields no
\* band and the copy routine raises
copy_into(i, s_b, t_b) ==
  LET fi == file_infos[i]
      w  == CopyWindow(fi, t_fh)
      engine == w.outcome = "copy"
      bad == s_b < 1 \/ s_b > fi.bands \/ t_b < 1 \/ t_b > t_fh.bands
      entry == [fi |-> i, s_band |-> s_b, t_band |-> t_b,
                outcome |-> IF engine /\ bad THEN "error" ELSE w.outcome,
                strategy |-> IF engine THEN Strategy(nodata, fi.filename) ELSE "none",
                m_band |-> IF engine /\ nodata = <<>>
                           THEN MaskBandOf(fi.filename) ELSE "None",
                tgw |-> w.tgw, tw |-> w.tw, sw |-> w.sw]
  IN  /\ copies' = Append(copies, entry)
      /\ IF ~engine THEN UNCHANGED <<t_fh, calls>>
         ELSE IF bad THEN UNCHANGED <<t_fh, calls>>
         ELSE /\ t_fh' = raster_copy(fi.filename, w.sw, s_b, t_fh, w.tw, t_b, nodata)
              /\ calls' = calls \cup {"Write"}
      /\ IF engine /\ bad THEN Fail("BandError")
         ELSE UNCHANGED <<pc, failure>>

\* a slip: the output-band cursor never advanced
NextTBandStuck(tb) == tb
\* line 445: t_band = t_band + 1
NextTBand(tb) == tb + 1

\* lines 439-441, one iteration of `for band in range(1, bands + 1)`
CopyStacked ==
  /\ pc = "copy"
  /\ separate = 0
  /\ fi_idx <= Len(file_infos)
  /\ IF bands = Unbound
     THEN /\ Fail("UnboundLocalError")
          /\ UNCHANGED <<t_fh, calls, copies, fi_idx, band>>
     ELSE /\ copy_into(fi_idx, band, band)
          /\ IF band < bands[1]
             THEN band' = band + 1 /\ UNCHANGED fi_idx
             ELSE band' = 1 /\ fi_idx' = fi_idx + 1
  /\ UNCHANGED <<inputs, file_infos, ulx, uly, lrx, lry, psize_x, psize_y,
                 bands, t_band, background>>

\* lines 442-445, one iteration of `for band in range(1, fi.bands + 1)`
CopySeparate ==
  /\ pc = "copy"
  /\ separate # 0
  /\ fi_idx <= Len(file_infos)
  /\ copy_into(fi_idx, band, t_band)
  /\ t_band' = NextTBand(t_band)
  /\ IF band < file_infos[fi_idx].bands
     THEN band' = band + 1 /\ UNCHANGED fi_idx
     ELSE band' = 1 /\ fi_idx' = fi_idx + 1
  /\ UNCHANGED <<inputs, file_infos, ulx, uly, lrx, lry, psize_x, psize_y,
                 bands, background>>

\* the loop over file_infos is exhausted: run_merge returns
Finish ==
  /\ pc = "copy"
  /\ fi_idx > Len(file_infos)
  /\ pc' = "done"
  /\ UNCHANGED <<inputs, failure, file_infos, ulx, uly, lrx, lry, psize_x, psize_y,
                 t_fh, bands, t_band, fi_idx, band, calls, background, copies>>

Next ==
  \/ Collect
  \/ Plan
  \/ Reuse
  \/ Create
  \/ PreInit
  \/ CopyStacked
  \/ CopySeparate
  \/ Finish

Spec == Init /\ [][Next]_vars

SpecGeom == InitGeom /\ [][Next]_vars

-----------------------------------------------------------------------------
(* Properties *)

Entries == 1 .. Len(copies)

\* the source file of log entry k
FileOf(k) == file_infos[copies[k].fi].filename

\* the log entries that ran a copy routine on output band b over output pixel p
Covering(b, p) ==
  {k \in Entries : /\ copies[k].outcome = "copy"
                   /\ copies[k].t_band = b
                   /\ InWin(p, copies[k].tw)}

Last(K) == CHOOSE k \in K : \A j \in K : j <= k

\* the source sample entry k read for output pixel p
EntrySample(k, p) == ReadSrc(FileOf(k), copies[k].s_band, p, copies[k].sw, copies[k].tw)

OutPix == Pix(t_fh.xsize, t_fh.ysize)

\* output pixel p lies wholly inside the extent of descriptor fi (north-up grids)
PixelInside(p, fi) ==
  LET g == t_fh.gt
  IN  /\ g[1] + p[1] * g[2] >= fi.ulx
      /\ g[1] + (p[1] + 1) * g[2] <= fi.lrx
      /\ g[4] + p[2] * g[6] <= fi.uly
      /\ g[4] + (p[2] + 1) * g[6] >= fi.lry

IsPlainFile(f) ==
  f.holes = "none" /\ f.flags = "GMF_ALL_VALID" /\ f.interp = "GCI_GrayIndex"

\* the tiles whose copy into band b has been completed
Copied(b) == {copies[k].fi : k \in {j \in Entries : copies[j].outcome = "copy"
                                                      /\ copies[j].t_band = b}}

\* C1: tiles are composited in input-list order, and under plain copy a later
\* tile overwrites earlier data: an output pixel whose last covering copy was a
\* plain copy holds that copy's sample, and in STACKED layout a pixel lying in
\* the extents of several copied plain tiles holds the value of the last of them
\* (unless a still later tile, covering the pixel only in part, was written there).
C1_OrderOverwrite ==
  /\ \A k \in Entries : k > 1 => copies[k - 1].fi <= copies[k].fi
  /\ t_fh # NoRaster =>
       \A b \in 1 .. t_fh.bands : \A p \in OutPix :
         /\ LET K == Covering(b, p)
            IN  K # {} /\ copies[Last(K)].strategy = "plain"
                  => t_fh.data[b][p] = EntrySample(Last(K), p)
         /\ LET T == {i \in Copied(b) : PixelInside(p, file_infos[i])}
            IN  (/\ separate = 0 /\ nodata = <<>> /\ T # {}
                 /\ \A i \in Copied(b) : IsPlainFile(file_infos[i].filename)
                 /\ \A k \in Covering(b, p) : copies[k].fi <= Last(T))
                => t_fh.data[b][p] = file_infos[Last(T)].filename.val + 2 * (b - 1)

\* C1 witness: a finished STACKED plain-copy run of two tiles with different
\* values whose overlap pixel holds the second tile's value.
C1_Witness ==
  /\ pc = "done" /\ separate = 0 /\ nodata = <<>> /\ Len(file_infos) = 2
  /\ IsPlainFile(file_infos[1].filename) /\ IsPlainFile(file_infos[2].filename)
  /\ file_infos[1].filename.val # file_infos[2].filename.val
  /\ \E p \in OutPix :
       /\ PixelInside(p, file_infos[1]) /\ PixelInside(p, file_infos[2])
       /\ Covering(1, p) = {1, 2}
       /\ t_fh.data[1][p] = file_infos[2].filename.val

\* the nodata test as the claim words it
IsNodata(v) == IF nodata[1] = NaN THEN v = NaN ELSE v # NaN /\ v = nodata[1]

\* C2: with a nodata value supplied, every output pixel holds the sample of the
\* last copied tile whose sample there is not nodata, and its background value
\* when every covering tile is nodata there.
C2_NodataComposite ==
  nodata # <<>> /\ background # NoRaster =>
    \A b \in 1 .. t_fh.bands : \A p \in OutPix :
      LET K == {k \in Covering(b, p) : ~IsNodata(EntrySample(k, p))}
      IN  t_fh.data[b][p] =
            IF K = {} THEN background.data[b][p] ELSE EntrySample(Last(K), p)

\* C2 witness: a finished run in which a later tile's nodata sample (NaN) left
\* an earlier tile's sample in place.
C2_Witness ==
  /\ pc = "done" /\ nodata = <<NaN>>
  /\ \E p \in OutPix : \E k, l \in Covering(1, p) :
       /\ k < l
       /\ ~IsNodata(EntrySample(k, p))
       /\ IsNodata(EntrySample(l, p))
       /\ t_fh.data[1][p] = EntrySample(k, p)
       /\ t_fh.data[1][p] # background.data[1][p]

\* whether entry k's source sample replaces the destination at p, by the
\* precedence the claim states
Wins(k, p) ==
  LET f == FileOf(k)
  IN  IF nodata # <<>> THEN ~IsNodata(EntrySample(k, p))
      ELSE IF f.flags # "GMF_ALL_VALID"
      THEN MaskSample(f, SrcPixel(p, copies[k].sw, copies[k].tw)[1],
                      SrcPixel(p, copies[k].sw, copies[k].tw)[2]) # 0
      ELSE IF f.interp = "GCI_AlphaBand" THEN EntrySample(k, p) # 0
      ELSE TRUE

\* C3: exactly one strategy per band copy: nodata-aware when a nodata argument
\* is supplied; otherwise mask-aware with the mask band when the mask flags are
\* not all-valid, mask-aware with the band itself when it is an alpha band;
\* plain copy only when neither holds, and the pixels written follow it.
C3_StrategyPrecedence ==
  /\ \A k \in Entries : copies[k].outcome = "copy" =>
       LET f == FileOf(k)
           e == copies[k]
       IN  /\ nodata # <<>> => e.strategy = "raster_copy_with_nodata"
           /\ nodata = <<>> /\ f.flags # "GMF_ALL_VALID"
                => e.strategy = "raster_copy_with_mask" /\ e.m_band = "GetMaskBand"
           /\ nodata = <<>> /\ f.flags = "GMF_ALL_VALID" /\ f.interp = "GCI_AlphaBand"
                => e.strategy = "raster_copy_with_mask" /\ e.m_band = "s_band"
           /\ e.strategy = "plain"
                <=> nodata = <<>> /\ f.flags = "GMF_ALL_VALID"
                                  /\ f.interp # "GCI_AlphaBand"
  /\ background # NoRaster =>
       \A b \in 1 .. t_fh.bands : \A p \in OutPix :
         LET K == {k \in Covering(b, p) : Wins(k, p)}
         IN  t_fh.data[b][p] =
               IF K = {} THEN background.data[b][p] ELSE EntrySample(Last(K), p)

\* C3 witness: a finished run with nodata = 0 supplied that copied an alpha band
\* whose mask flags are not all-valid with the nodata-aware routine.
C3_Witness ==
  /\ pc = "done" /\ nodata = <<0>>
  /\ \E k \in Entries :
       /\ copies[k].outcome = "copy"
       /\ copies[k].strategy = "raster_copy_with_nodata"
       /\ FileOf(k).flags # "GMF_ALL_VALID"
       /\ FileOf(k).interp = "GCI_AlphaBand"

\* out_file existed before the run (the handle never goes back to NoRaster)
Existed == t_fh # NoRaster /\ "Create" \notin calls

\* the (tile, source band) pairs a complete run copies
Pairs ==
  UNION {{<<i, j>> : j \in 1 .. (IF separate # 0 THEN file_infos[i].bands
                                  ELSE file_infos[1].bands)} :
           i \in 1 .. Len(file_infos)}

Merged ==
  \A pr \in Pairs : \E k \in Entries :
    copies[k].fi = pr[1] /\ copies[k].s_band = pr[2] /\ copies[k].outcome # "error"

\* C4: names that fail to open are dropped, keeping the order of the rest; the
\* run merges all remaining tiles, and fails (other than by a refused output
\* creation) only when none remains, with no output created or modified.
C4_DroppedTiles ==
  /\ pc # "collect" =>
       /\ Len(file_infos) = Cardinality({i \in 1 .. Len(names) : names[i].ok})
       /\ \A i \in 1 .. Len(file_infos) :
            file_infos[i].filename =
              names[CHOOSE n \in 1 .. Len(names) :
                      /\ names[n].ok
                      /\ Cardinality({m \in 1 .. n : names[m].ok}) = i]
  /\ pc = "failed" /\ failure # "CreationFailed" =>
       /\ file_infos = <<>>
       /\ calls = {}
  /\ pc = "done" => Merged

\* C5: in SEPARATE layout the created output has the sum of the tiles' band
\* counts, band j of the i-th tile goes to output band (bands before i) + j, no
\* output band is written by two (tile, band) pairs, and each output band holds
\* its tile band's data inside that tile's window and the background elsewhere.
C5_SeparateBands ==
  separate # 0 /\ "Create" \in calls =>
    /\ t_fh.bands = SumBands(file_infos)
    /\ pc # "failed"
    /\ \A k \in Entries :
         /\ copies[k].t_band =
              SumBands(SubSeq(file_infos, 1, copies[k].fi - 1)) + copies[k].s_band
         /\ copies[k].s_band \in 1 .. file_infos[copies[k].fi].bands
         /\ copies[k].t_band \in 1 .. t_fh.bands
         /\ \A l \in Entries : l # k => copies[l].t_band # copies[k].t_band
    /\ background # NoRaster =>
         \A b \in 1 .. t_fh.bands : \A p \in OutPix :
           LET K == Covering(b, p)
           IN  /\ Cardinality(K) <= 1
               /\ K = {} => t_fh.data[b][p] = background.data[b][p]
               /\ K # {} /\ copies[Last(K)].strategy = "plain"
                    => t_fh.data[b][p] = EntrySample(Last(K), p)
               /\ K # {} => t_fh.data[b][p] \in
                              {EntrySample(Last(K), p), background.data[b][p]}
    /\ pc = "done" => Merged /\ Len(copies) = t_fh.bands

\* C5 witness: a finished SEPARATE run over a 2-band and a 1-band tile into a
\* created 3-band output whose band 3 holds the second tile inside its window
\* and the background outside.
C5_Witness ==
  /\ pc = "done" /\ separate # 0 /\ "Create" \in calls /\ nodata = <<>>
  /\ Len(file_infos) = 2 /\ file_infos[1].bands = 2 /\ t_fh.bands = 3
  /\ copies[3].fi = 2 /\ copies[3].t_band = 3 /\ copies[3].strategy = "plain"
  /\ \E p, q \in OutPix :
       /\ InWin(p, copies[3].tw) /\ ~InWin(q, copies[3].tw)
       /\ t_fh.data[3][p] = file_infos[2].filename.val
       /\ t_fh.data[3][q] = background.data[3][q]
       /\ t_fh.data[3][p] # t_fh.data[3][q]

\* the union of the tile extents, stated without the running min/max
IsUnion(x0, y0, x1, y1) ==
  /\ \A i \in 1 .. Len(file_infos) :
       /\ x0 <= file_infos[i].ulx /\ y0 >= file_infos[i].uly
       /\ x1 >= file_infos[i].lrx /\ y1 <= file_infos[i].lry
  /\ \E i \in 1 .. Len(file_infos) : x0 = file_infos[i].ulx
  /\ \E i \in 1 .. Len(file_infos) : y0 = file_infos[i].uly
  /\ \E i \in 1 .. Len(file_infos) : x1 = file_infos[i].lrx
  /\ \E i \in 1 .. Len(file_infos) : y1 = file_infos[i].lry

\* far corner of the output raster
OutLrx == t_fh.gt[1] + t_fh.xsize * t_fh.gt[2]
OutLry == t_fh.gt[4] + t_fh.ysize * t_fh.gt[6]

\* C6 as stated: the created output has origin (min ulx, max uly), the first
\* tile's pixel size, and reaches at least (max lrx, min lry).
C6_CoversUnion ==
  "Create" \in calls =>
    \E x1 \in {file_infos[i].lrx : i \in 1 .. Len(file_infos)} :
    \E y1 \in {file_infos[i].lry : i \in 1 .. Len(file_infos)} :
      /\ IsUnion(t_fh.gt[1], t_fh.gt[4], x1, y1)
      /\ t_fh.gt[2] = file_infos[1].geotransform[2]
      /\ t_fh.gt[6] = file_infos[1].geotransform[6]
      /\ OutLrx >= x1
      /\ OutLry <= y1

\* C6 amended: the created output has origin (min ulx, max uly) and the first
\* tile's pixel size; its far corner is (max lrx, min lry) rounded to the nearest
\* whole pixel (half a pixel rounds outward), so it is within half a pixel of the
\* union's corner, and equal to it when the union's width and height are
\* multiples of the pixel size.
C6_CoversUnionRounded ==
  "Create" \in calls =>
    \E x1 \in {file_infos[i].lrx : i \in 1 .. Len(file_infos)} :
    \E y1 \in {file_infos[i].lry : i \in 1 .. Len(file_infos)} :
      LET px == t_fh.gt[2]
          py == t_fh.gt[6]
      IN  /\ IsUnion(t_fh.gt[1], t_fh.gt[4], x1, y1)
          /\ px = file_infos[1].geotransform[2]
          /\ py = file_infos[1].geotransform[6]
          /\ t_fh.xsize >= 1 /\ t_fh.ysize >= 1
          /\ 2 * x1 - px < 2 * OutLrx /\ 2 * OutLrx <= 2 * x1 + px
          /\ 2 * y1 - py > 2 * OutLry /\ 2 * OutLry >= 2 * y1 + py
          /\ (x1 - t_fh.gt[1]) % px = 0 => OutLrx = x1
          /\ (t_fh.gt[4] - y1) % (-py) = 0 => OutLry = y1

\* C6 witness: an output created for two tiles, larger than either tile, whose
\* extent is exactly the union of theirs.
C6_Witness ==
  /\ "Create" \in calls /\ Len(file_infos) = 2
  /\ IsUnion(t_fh.gt[1], t_fh.gt[4], OutLrx, OutLry)
  /\ \A i \in 1 .. 2 :
       file_infos[i].lrx - file_infos[i].ulx < OutLrx - t_fh.gt[1]
  /\ \A i \in 1 .. 2 :
       file_infos[i].uly - file_infos[i].lry < t_fh.gt[4] - OutLry

\* C7: when out_file exists and opens, the run creates nothing, sets neither
\* geotransform nor projection, and goes on through pre-initialisation and the
\* copy loop to the end, compositing every band pair of every tile.
C7_ReusePath ==
  Existed /\ file_infos # <<>> /\ pc \in {"init", "copy", "done", "failed"} =>
    /\ calls \cap {"Create", "SetGeoTransform", "SetProjection"} = {}
    /\ pc # "failed"
    /\ pc = "done" => Merged

\* C8: a non-empty pre_init fills every output band before any tile is copied:
\* band b with the b-th value, or every band with the single value given.
C8_PreFillEveryBand ==
  pre_init # <<>> /\ background # NoRaster =>
    \A b \in 1 .. background.bands :
      \E v \in {pre_init[i] : i \in 1 .. Len(pre_init)} :
        /\ \A p \in Pix(background.xsize, background.ysize) :
             background.data[b][p] = v
        /\ Len(pre_init) = 1 => v = pre_init[1]
        /\ Len(pre_init) > 1 /\ b <= Len(pre_init) => v = pre_init[b]

\* floor(n / d) = k, for d # 0
FloorIs(k, n, d) ==
  IF d > 0 THEN k * d <= n /\ n < (k + 1) * d
  ELSE k * d >= n /\ n > (k + 1) * d

\* the windows of entry k obey: target offset floor(q + 0.1) when epsT, else
\* floor(q), on the target grid; likewise on the source grid with epsS; far
\* edge floor(q + 0.5) on both
WindowRule(k, epsT, epsS) ==
  LET e == copies[k]
      g == t_fh.gt
      s == file_infos[e.fi].geotransform
      OffIs(o, n, d, eps) ==
        IF eps THEN FloorIs(o, 10 * n + d, 10 * d) ELSE FloorIs(o, n, d)
      EndIs(o, sz, n, d) == FloorIs(o + sz, 2 * n + d, 2 * d)
  IN  /\ e.outcome \in {"skip_tw", "skip_sw", "copy", "error"} =>
           /\ OffIs(e.tw[1], e.tgw[1] - g[1], g[2], epsT)
           /\ OffIs(e.tw[2], e.tgw[2] - g[4], g[6], epsT)
           /\ EndIs(e.tw[1], e.tw[3], e.tgw[3] - g[1], g[2])
           /\ EndIs(e.tw[2], e.tw[4], e.tgw[4] - g[4], g[6])
      /\ e.outcome \in {"skip_sw", "copy", "error"} =>
           /\ OffIs(e.sw[1], e.tgw[1] - s[1], s[2], epsS)
           /\ OffIs(e.sw[2], e.tgw[2] - s[4], s[6], epsS)
           /\ EndIs(e.sw[1], e.sw[3], e.tgw[3] - s[1], s[2])
           /\ EndIs(e.sw[2], e.sw[4], e.tgw[4] - s[4], s[6])
           /\ e.tw[3] >= 1 /\ e.tw[4] >= 1
      /\ e.outcome = "skip_tw" => e.tw[3] < 1 \/ e.tw[4] < 1
      /\ e.outcome = "skip_sw" => e.sw[3] < 1 \/ e.sw[4] < 1
      /\ e.outcome \in {"copy", "error"} => e.sw[3] >= 1 /\ e.sw[4] >= 1

\* a tile skipped for a window size < 1 is neither read nor written and raises
\* nothing
SkipsAreNoOps ==
  /\ (\A k \in Entries : copies[k].outcome # "copy") /\ background # NoRaster
       => t_fh = background /\ "Write" \notin calls
  /\ failure = "BandError" => copies[Len(copies)].outcome = "error"
  /\ \A k \in Entries :
       (/\ copies[k].outcome \in {"skip_tw", "skip_sw"} /\ background # NoRaster
        /\ copies[k].t_band \in 1 .. t_fh.bands)
         => \A p \in OutPix : Covering(copies[k].t_band, p) = {}
              => t_fh.data[copies[k].t_band][p] = background.data[copies[k].t_band][p]

\* C9 as stated: the same rule on both grids, the 0.1 epsilon applied to the
\* source offset as well as the target offset.
C9_SameRuleBothGrids ==
  /\ \A k \in Entries : WindowRule(k, TRUE, TRUE)
  /\ SkipsAreNoOps

\* C9 amended: the 0.1 epsilon is applied to the target offset only; the source
\* offset is floor((overlapUL - origin) / pixelSize) with no epsilon; sizes use
\* the 0.5 bias on both grids and a size < 1 skips the tile.
C9_EpsilonOnTargetOnly ==
  /\ \A k \in Entries : WindowRule(k, TRUE, FALSE)
  /\ SkipsAreNoOps

\* C9 witness: a copy whose overlap starts 0.95 pixel into the source grid and
\* is read from source column 0, where the epsilon would have given column 1.
C9_Witness ==
  \E k \in Entries :
    LET e == copies[k]
        s == file_infos[e.fi].geotransform
    IN  /\ e.outcome = "copy"
        /\ e.sw[1] = 0
        /\ 10 * (e.tgw[1] - s[1]) + s[2] >= 10 * s[2]
        /\ "Write" \in calls

\* C10: in STACKED layout every call of the copy engine names a source band the
\* tile has and a target band the output has.
C10_BandsInRange ==
  separate = 0 =>
    \A k \in Entries : copies[k].outcome \in {"copy", "error"} =>
      /\ copies[k].s_band \in 1 .. file_infos[copies[k].fi].bands
      /\ copies[k].t_band \in 1 .. t_fh.bands

=============================================================================
